---- MODULE Spec2Model ----
(***************************************************************************)
(* A model of src/src/ol/webgl/Fragment.js: the WMTS tile source           *)
(* (constructor, createFromWMTSTemplate_, setUrls, getKeyForDimensions_,   *)
(* updateDimensions) and optionsFromCapabilities.                          *)
(*                                                                         *)
(* Strings are sequences of lexemes.  A lexeme is a TLA+ string standing   *)
(* for a run of characters that the code never looks inside; the           *)
(* characters the code does look at ("{", "}", "-", "/", "?", "&", "=",    *)
(* "\n") are lexemes of their own, so that concatenation, joining and      *)
(* the placeholder pattern act on them as they act on JavaScript strings.  *)
(* No lexeme of the model is the concatenation of other lexemes, so two    *)
(* sequences are equal exactly when the strings they stand for are.        *)
(* A JavaScript object is a sequence of <<key, value>> entries in          *)
(* insertion order (keys are non-numeric, so for-in follows that order).   *)
(***************************************************************************)
EXTENDS Integers, Sequences, FiniteSets, TLC

VARIABLES
  requestEncoding,   \* this.requestEncoding_
  context,           \* the constructor's closed-over static context
  dimensions,        \* this.dimensions_
  urls,              \* this.urls
  tileUrlFunction,   \* the source's current tile URL function
  key,               \* the value last passed to setKey
  op,                \* the last operation: its inputs and what it returned
  wmtsCap,           \* optionsFromCapabilities: the capabilities document
  config,            \* optionsFromCapabilities: the config argument
  options            \* optionsFromCapabilities: the returned value

vars == <<requestEncoding, context, dimensions, urls, tileUrlFunction, key,
          op, wmtsCap, config, options>>

sourceVars == <<requestEncoding, context, dimensions, urls, tileUrlFunction,
                key, op>>

capVars == <<wmtsCap, config, options>>

(***************************************************************************)
(* Bounds of the model.                                                    *)
(***************************************************************************)
MaxZ == 1          \* zoom levels 0..MaxZ
MaxCol == 0        \* tile columns 0..MaxCol
MaxRow == 1        \* internal tile rows -1 .. -(MaxRow + 1)
MaxPatch == 2      \* entries of one updateDimensions argument
MaxEntries == 2    \* entries of a dimensions object in the key specification
MaxGets == 2       \* GetTile HTTP-GET bindings of a capabilities document
MaxLinks == 2      \* matrix-set links of a layer

KVP == "KVP"
REST == "REST"

(***************************************************************************)
(* Strings and objects.                                                    *)
(***************************************************************************)
RECURSIVE Join(_, _)
\* Array.prototype.join(sep) on an array of strings.
Join(strs, sep) ==
  IF strs = <<>> THEN <<>>
  ELSE IF Len(strs) = 1 THEN strs[1]
  ELSE strs[1] \o sep \o Join(Tail(strs), sep)

\* key in obj
Has(obj, k) == \E i \in DOMAIN obj : obj[i][1] = k

\* obj[key], for a key the object has
Get(obj, k) == obj[CHOOSE i \in DOMAIN obj : obj[i][1] = k][2]

Keys(obj) == {obj[i][1] : i \in DOMAIN obj}

\* obj[key] = value
Put(obj, k, v) ==
  IF Has(obj, k)
    THEN [i \in DOMAIN obj |-> IF obj[i][1] = k THEN <<k, v>> ELSE obj[i]]
    ELSE Append(obj, <<k, v>>)

RECURSIVE assign(_, _)
\* assign(target, source) of ../obj.js (Object.assign): every own property of
\* the source is set on the target, in the source's order.
assign(target, source) ==
  IF source = <<>> THEN target
  ELSE assign(Put(target, source[1][1], source[1][2]), Tail(source))

\* String.prototype.toLowerCase on a lexeme, for the words of the model.
ToLowerCase(w) ==
  CASE w \in {"Layer", "LAYER", "layer"} -> "layer"
    [] w \in {"Style", "STYLE", "style"} -> "style"
    [] w \in {"TileMatrixSet", "TILEMATRIXSET", "tilematrixset"} -> "tilematrixset"
    [] w \in {"TileMatrix", "TILEMATRIX", "tilematrix"} -> "tilematrix"
    [] w \in {"TileCol", "TILECOL", "tilecol"} -> "tilecol"
    [] w \in {"TileRow", "TILEROW", "tilerow"} -> "tilerow"
    [] w \in {"Time", "TIME", "time"} -> "time"
    [] w \in {"Service", "service"} -> "service"
    [] w \in {"Request", "request"} -> "request"
    [] w \in {"Version", "version"} -> "version"
    [] w \in {"Format", "format"} -> "format"
    [] OTHER -> w

\* The lexemes that match \w+ (letters, digits, underscore).
Words ==
  {"Layer", "LAYER", "layer", "Style", "STYLE", "style",
   "TileMatrixSet", "TILEMATRIXSET", "tilematrixset",
   "TileMatrix", "TILEMATRIX", "tilematrix",
   "TileCol", "TILECOL", "tilecol", "TileRow", "TILEROW", "tilerow",
   "Time", "TIME", "time", "foo", "roads", "default", "current", "latest",
   "0", "1", "2", "3", "undefined", "k1", "key", "WMTS", "GetTile"}

(***************************************************************************)
(* Collaborators of the source file (not under src/).                      *)
(***************************************************************************)
\* Number to string, as JavaScript's string conversion of an integer.
IntStr(n) == ToString(n)

\* tileGrid.getMatrixId(z): the matrix identifier of zoom level z.
getMatrixId(z) == <<IntStr(z)>>

\* encodeURIComponent on one lexeme: "/" is escaped, word characters, "-"
\* and "." are kept.
encodeURIComponent(w) ==
  CASE w = "/" -> "%2F"
    [] w = "image/jpeg" -> "image%2Fjpeg"
    [] OTHER -> w

RECURSIVE Split(_, _)
\* String.prototype.split(sep) for a one-lexeme separator.
Split(s, sep) ==
  IF \A i \in DOMAIN s : s[i] # sep THEN <<s>>
  ELSE LET i == CHOOSE j \in DOMAIN s :
                  s[j] = sep /\ \A k \in 1..(j - 1) : s[k] # sep
       IN <<SubSeq(s, 1, i - 1)>> \o Split(SubSeq(s, i + 1, Len(s)), sep)

\* The query parameters of a URL, as <<key, value>> pairs of strings.
QueryParams(uri) ==
  IF \A i \in DOMAIN uri : uri[i] # "?" THEN <<>>
  ELSE LET parts == Split(uri, "?")
           query == Join(Tail(parts), <<"?">>)
           segs  == Split(query, "&")
           kv(seg) == LET p == Split(seg, "=")
                      IN <<p[1], Join(Tail(p), <<"=">>)>>
       IN [i \in DOMAIN segs |-> kv(segs[i])]

\* appendParams(uri, params) of ../uri.js: the parameters are appended to the
\* URL's query string, after the ones it has; a key the URL's query string
\* already holds is not appended again.
appendParams(uri, params) ==
  LET have == {QueryParams(uri)[i][1] : i \in DOMAIN QueryParams(uri)}
      fresh == SelectSeq(params, LAMBDA e : e[1] \notin have)
      keyParams == [i \in DOMAIN fresh |->
                      fresh[i][1] \o <<"=">> \o
                      [j \in DOMAIN fresh[i][2] |-> encodeURIComponent(fresh[i][2][j])]]
      qs == Join(keyParams, <<"&">>)
      stripped == IF uri # <<>> /\ uri[Len(uri)] \in {"?", "&"}
                    THEN SubSeq(uri, 1, Len(uri) - 1) ELSE uri
      opened == IF \A i \in DOMAIN stripped : stripped[i] # "?"
                  THEN Append(stripped, "?") ELSE Append(stripped, "&")
  IN IF fresh = <<>> THEN uri ELSE opened \o qs

\* tileCoordHash of ../tilecoord.js and modulo of ../math.js, as used by
\* createFromTileUrlFunctions to pick one function per tile coordinate.
HashIndex(tileCoord, n) == ((tileCoord[2] * (2 ^ tileCoord[1]) + tileCoord[3]) % n) + 1

(***************************************************************************)
(* The WMTS source.                                                        *)
(***************************************************************************)
None == <<>>                                   \* an absent tile coordinate
Undefined == [type |-> "undefined", url |-> <<>>]
TypeError == [type |-> "TypeError", url |-> <<>>]
Url(u) == [type |-> "url", url |-> u]

\* The static context of the constructor.
Context(enc, layer, style, matrixSet, version, format) ==
  LET base == << <<<<"layer">>, layer>>, <<<<"style">>, style>>,
                 <<<<"tilematrixset">>, matrixSet>> >>
  IN IF enc = KVP
       THEN assign(base, << <<<<"Service">>, <<"WMTS">>>>,
                            <<<<"Request">>, <<"GetTile">>>>,
                            <<<<"Version">>, version>>,
                            <<<<"Format">>, format>> >>)
       ELSE base

\* A match of /\{(\w+?)\}/ at the head of s.
PlaceholderAtHead(s) ==
  Len(s) >= 3 /\ s[1] = "{" /\ s[2] \in Words /\ s[3] = "}"

RECURSIVE ReplaceStatic(_, _)
\* template.replace(/\{(\w+?)\}/g, (m, p) =>
\*   (p.toLowerCase() in context) ? context[p.toLowerCase()] : m)
ReplaceStatic(s, ctx) ==
  IF s = <<>> THEN <<>>
  ELSE IF PlaceholderAtHead(s)
    THEN (IF Has(ctx, <<ToLowerCase(s[2])>>)
            THEN Get(ctx, <<ToLowerCase(s[2])>>)
            ELSE SubSeq(s, 1, 3))
         \o ReplaceStatic(SubSeq(s, 4, Len(s)), ctx)
    ELSE <<s[1]>> \o ReplaceStatic(Tail(s), ctx)

RECURSIVE ReplaceLocal(_, _)
\* url.replace(/\{(\w+?)\}/g, (m, p) => localContext[p]); a replacement
\* function that returns undefined puts the text "undefined".
ReplaceLocal(s, localContext) ==
  IF s = <<>> THEN <<>>
  ELSE IF PlaceholderAtHead(s)
    THEN (IF Has(localContext, <<s[2]>>)
            THEN Get(localContext, <<s[2]>>)
            ELSE <<"undefined">>)
         \o ReplaceLocal(SubSeq(s, 4, Len(s)), localContext)
    ELSE <<s[1]>> \o ReplaceLocal(Tail(s), localContext)

\* this.createFromWMTSTemplate_(template): the template the returned function
\* closes over.
createFromWMTSTemplate(template, enc, ctx) ==
  IF enc = KVP THEN appendParams(template, ctx) ELSE ReplaceStatic(template, ctx)

\* The localContext of one call: the tile's matrix, column and inverted row,
\* then the dimensions assigned over them.
LocalContext(dims, tileCoord) ==
  assign(<< <<<<"TileMatrix">>, getMatrixId(tileCoord[1])>>,
            <<<<"TileCol">>, <<IntStr(tileCoord[2])>>>>,
            <<<<"TileRow">>, <<IntStr(-tileCoord[3] - 1)>>>> >>, dims)

\* The returned function without its check of the tile coordinate: reading
\* tileCoord[0] of an absent coordinate throws.
TemplateTileUrlNoNullCheck(template, enc, dims, tileCoord) ==
  IF tileCoord = None THEN TypeError
  ELSE Url(IF enc = KVP THEN appendParams(template, LocalContext(dims, tileCoord))
           ELSE ReplaceLocal(template, LocalContext(dims, tileCoord)))

\* The function returned by createFromWMTSTemplate_, applied to a tile coordinate.
TemplateTileUrl(template, enc, dims, tileCoord) ==
  IF tileCoord = None THEN Undefined
  ELSE Url(IF enc = KVP THEN appendParams(template, LocalContext(dims, tileCoord))
           ELSE ReplaceLocal(template, LocalContext(dims, tileCoord)))

\* The index of the template that serves a tile coordinate (0: none).
TemplateIndex(tuf, tileCoord) ==
  IF tuf.kind = "null" \/ tileCoord = None \/ tuf.templates = <<>> THEN 0
  ELSE IF Len(tuf.templates) = 1 THEN 1
  ELSE HashIndex(tileCoord, Len(tuf.templates))

\* createFromTileUrlFunctions(urls.map(createFromWMTSTemplate_)), or
\* nullTileUrlFunction, applied to a tile coordinate.
CallTileUrlFunction(tuf, enc, dims, tileCoord) ==
  IF tuf.kind = "null" THEN Undefined
  ELSE IF Len(tuf.templates) = 1
    THEN TemplateTileUrl(tuf.templates[1], enc, dims, tileCoord)
  ELSE IF tileCoord = None THEN Undefined
  ELSE IF tuf.templates = <<>> THEN TypeError
  ELSE TemplateTileUrl(tuf.templates[HashIndex(tileCoord, Len(tuf.templates))],
                       enc, dims, tileCoord)

\* The key that forgets the values.
getKeyForDimensionsNamesOnly(dims) ==
  Join([i \in DOMAIN dims |-> dims[i][1]], <<"/">>)

\* WMTS.prototype.getKeyForDimensions_
getKeyForDimensions(dims) ==
  Join([i \in DOMAIN dims |-> dims[i][1] \o <<"-">> \o dims[i][2]], <<"/">>)

(***************************************************************************)
(* Inputs of the source specification.                                     *)
(***************************************************************************)
Layer == <<"roads">>
Style == <<"default">>
MatrixSet == <<"GoogleMapsCompatible">>
Version == <<"1.0.0">>           \* the default of options.version
Format == <<"image/jpeg">>       \* the default of options.format

\* The objects of at most n entries with names and values from the given sets.
Objects(names, values, n) ==
  {o \in UNION {[1..k -> names \X values] : k \in 0..n} :
     \A i, j \in DOMAIN o : i # j => o[i][1] # o[j][1]}

DimNames == {<<"Time">>, <<"TileRow">>}
DimValues == {<<"latest">>, <<"latest", "/", "TileRow", "-", "latest">>}
DimensionObjects == Objects(DimNames, DimValues, MaxPatch)

KvpBase == <<"http://host/wmts">>
KvpBaseWithQuery == <<"http://host/wmts", "?", "key", "=", "k1">>
RestCanonical ==
  <<"http://host/", "{", "Layer", "}", "/", "{", "TileMatrix", "}", "/",
    "{", "TileRow", "}", "/", "{", "TileCol", "}", ".png">>
RestOtherCase ==
  <<"http://host/", "{", "LAYER", "}", "/", "{", "tilematrix", "}", "/",
    "{", "TILEROW", "}", "/", "{", "tilecol", "}", "/", "{", "time", "}", ".png">>
RestUnknown ==
  <<"http://host/", "{", "layer", "}", "/", "{", "foo", "}", "/",
    "{", "Time", "}", "/", "{", "TileMatrix", "}", ".png">>

UrlLists ==
  {<<>>, <<KvpBase>>, <<KvpBaseWithQuery>>, <<RestCanonical>>, <<RestOtherCase>>,
   <<RestUnknown>>, <<RestCanonical, RestUnknown>>}

TileCoords ==
  {<<z, x, y>> : z \in 0..MaxZ, x \in 0..MaxCol, y \in {-(r + 1) : r \in 0..MaxRow}}

Op(kind, patch, tileCoord, template, result) ==
  [kind |-> kind, patch |-> patch, tileCoord |-> tileCoord, template |-> template,
   result |-> result]

NoDocument == [none |-> TRUE]

(***************************************************************************)
(* The source: construction and operations.                                *)
(***************************************************************************)
\* new WMTS(options), with layer, style and matrixSet given and version and
\* format left to their defaults.
Construct(enc, dims, optUrls) ==
  /\ requestEncoding = enc
  /\ context = Context(enc, Layer, Style, MatrixSet, Version, Format)
  /\ dimensions = dims
  /\ urls = optUrls
  /\ tileUrlFunction =
       IF Len(optUrls) > 0
         THEN [kind |-> "fns",
               templates |-> [i \in DOMAIN optUrls |->
                  createFromWMTSTemplate(optUrls[i], enc,
                    Context(enc, Layer, Style, MatrixSet, Version, Format))]]
         ELSE [kind |-> "null", templates |-> <<>>]
  /\ key = getKeyForDimensions(dims)
  /\ op = Op("construct", <<>>, None, <<>>, Undefined)

Init ==
  /\ \E enc \in {KVP, REST}, dims \in DimensionObjects, optUrls \in UrlLists :
       Construct(enc, dims, optUrls)
  /\ wmtsCap = NoDocument /\ config = NoDocument /\ options = NoDocument

\* An update that replaces the mapping by its argument.
UpdateDimensionsReplaces(patch) ==
  /\ dimensions' = patch
  /\ key' = getKeyForDimensions(patch)
  /\ op' = Op("updateDimensions", patch, None, <<>>, Undefined)
  /\ UNCHANGED <<requestEncoding, context, urls, tileUrlFunction, capVars>>

\* WMTS.prototype.updateDimensions
UpdateDimensions(patch) ==
  /\ dimensions' = assign(dimensions, patch)
  /\ key' = getKeyForDimensions(assign(dimensions, patch))
  /\ op' = Op("updateDimensions", patch, None, <<>>, Undefined)
  /\ UNCHANGED <<requestEncoding, context, urls, tileUrlFunction, capVars>>

\* WMTS.prototype.setUrls; this.fixedTileUrlFunction is not set on a WMTS source.
SetUrls(newUrls) ==
  /\ urls' = newUrls
  /\ tileUrlFunction' =
       [kind |-> "fns",
        templates |-> [i \in DOMAIN newUrls |->
           createFromWMTSTemplate(newUrls[i], requestEncoding, context)]]
  /\ key' = Join(newUrls, <<"\n">>)
  /\ op' = Op("setUrls", <<>>, None, <<>>, Undefined)
  /\ UNCHANGED <<requestEncoding, context, dimensions, capVars>>

\* A call of the source's tile URL function.
GetTileUrl(tileCoord) ==
  /\ op' = Op("tileUrl", <<>>, tileCoord,
              IF TemplateIndex(tileUrlFunction, tileCoord) = 0 THEN <<>>
              ELSE urls[TemplateIndex(tileUrlFunction, tileCoord)],
              CallTileUrlFunction(tileUrlFunction, requestEncoding, dimensions, tileCoord))
  /\ UNCHANGED <<requestEncoding, context, dimensions, urls, tileUrlFunction, key, capVars>>

Next ==
  \/ \E patch \in DimensionObjects : UpdateDimensions(patch)
  \/ \E newUrls \in UrlLists : SetUrls(newUrls)
  \/ \E tileCoord \in TileCoords \cup {None} : GetTileUrl(tileCoord)

Spec == Init /\ [][Next]_vars

(***************************************************************************)
(* Claims about the source.                                                *)
(***************************************************************************)
TileUrlReturned ==
  op.kind = "tileUrl" /\ op.tileCoord # None /\ op.result.type = "url"

\* C1: in every reachable state the published key equals the key derived by
\* getKeyForDimensions_ from the current dimensions.
C1_KeyIsDimensionsKey == key = getKeyForDimensions(dimensions)

\* C4: for every valid tile coordinate, KVP template and dimensions the URL
\* returned by the KVP function carries the parameter TileRow = -y - 1.
C4_KvpTileRow ==
  (TileUrlReturned /\ requestEncoding = KVP) =>
    \E i \in DOMAIN QueryParams(op.result.url) :
      QueryParams(op.result.url)[i] =
        << <<"TileRow">>, <<IntStr(-op.tileCoord[3] - 1)>> >>

\* The placeholder names of a template.
PlaceholderNames(t) ==
  {t[i + 1] : i \in {j \in 1..(Len(t) - 2) : PlaceholderAtHead(SubSeq(t, j, Len(t)))}}

\* The names of the dynamic context: TileMatrix, TileCol, TileRow and the
\* current dimension names.
DynamicNames == {<<"TileMatrix">>, <<"TileCol">>, <<"TileRow">>} \cup Keys(dimensions)

StaticNames == {<<"layer">>, <<"style">>, <<"tilematrixset">>}

LowerName(name) == [i \in DOMAIN name |-> ToLowerCase(name[i])]

\* A placeholder name that no context name matches, in any letter case.
Unresolved(p) ==
  /\ LowerName(<<p>>) \notin StaticNames
  /\ \A n \in DynamicNames : LowerName(n) # LowerName(<<p>>)

Contains(s, part) ==
  \E i \in 1..(Len(s) - Len(part) + 1) : SubSeq(s, i, i + Len(part) - 1) = part

\* C5: with REST encoding a placeholder whose name is in neither context
\* appears unchanged, as {name}, in the returned URL.
C5_UnresolvedPlaceholderKept ==
  (TileUrlReturned /\ requestEncoding = REST) =>
    \A p \in PlaceholderNames(op.template) :
      Unresolved(p) => Contains(op.result.url, <<"{", p, "}">>)

\* The spelling of a placeholder name under which the contexts hold it.
CanonicalName(p) ==
  IF LowerName(<<p>>) \in StaticNames THEN ToLowerCase(p)
  ELSE IF \E n \in DynamicNames : LowerName(n) = LowerName(<<p>>)
    THEN (CHOOSE n \in DynamicNames : LowerName(n) = LowerName(<<p>>))[1]
  ELSE p

CanonicalTemplate(t) ==
  [i \in DOMAIN t |->
     IF i > 1 /\ i < Len(t) /\ PlaceholderAtHead(SubSeq(t, i - 1, Len(t)))
       THEN CanonicalName(t[i]) ELSE t[i]]

\* C6: with REST encoding every letter-case variant of a placeholder name
\* gets the value that the canonical spelling gets.
C6_CaseInsensitive ==
  (TileUrlReturned /\ requestEncoding = REST) =>
    op.result =
      TemplateTileUrl(
        createFromWMTSTemplate(CanonicalTemplate(op.template), requestEncoding, context),
        requestEncoding, dimensions, op.tileCoord)

NoSlashInValues(dims) ==
  \A i \in DOMAIN dims : \A j \in DOMAIN dims[i][2] : dims[i][2][j] # "/"

NoDashInNames(dims) ==
  \A i \in DOMAIN dims : \A j \in DOMAIN dims[i][1] : dims[i][1][j] # "-"

\* No name holds the "-" and no value the "/" of getKeyForDimensions_.
SeparatorFree(dims) == NoDashInNames(dims) /\ NoSlashInValues(dims)

\* What updateDimensions(op'.patch) does to the mapping.
Merged ==
  /\ \A i \in DOMAIN op'.patch :
       Has(dimensions', op'.patch[i][1])
       /\ Get(dimensions', op'.patch[i][1]) = op'.patch[i][2]
  /\ \A i \in DOMAIN dimensions :
       /\ Has(dimensions', dimensions[i][1])
       /\ ~Has(op'.patch, dimensions[i][1]) =>
             Get(dimensions', dimensions[i][1]) = dimensions[i][2]
  /\ Keys(dimensions) \subseteq Keys(dimensions')
  /\ Keys(dimensions') = Keys(dimensions) \cup Keys(op'.patch)

C9_AbsentCoordinate ==
  [][(op'.kind = "tileUrl" /\ op'.tileCoord = None) =>
       /\ op'.result = Undefined
       /\ UNCHANGED <<dimensions, context, tileUrlFunction, urls, key>>]_vars

\* An absent coordinate has been given to the function compiled from a
\* single template, on a source that holds dimensions.
C9_Witness ==
  /\ op.kind = "tileUrl" /\ op.tileCoord = None /\ op.result = Undefined
  /\ tileUrlFunction.kind = "fns" /\ Len(tileUrlFunction.templates) = 1
  /\ dimensions # <<>>

(***************************************************************************)
(* The key specification: a source whose dimension names and values may    *)
(* hold the separators "-" and "/" of getKeyForDimensions_.                *)
(***************************************************************************)
KeyNames == {<<"time">>, <<"elevation">>, <<"time", "-">>, <<"/", "elevation">>}
KeyValues == {<<"2020">>, <<"-", "2020">>, <<"2020", "/", "elevation", "-", "2020">>}
KeyObjects == Objects(KeyNames, KeyValues, MaxEntries)
KeyPatches == Objects(KeyNames, KeyValues, 1) \ {<<>>}

InitKey ==
  /\ \E dims \in KeyObjects : Construct(KVP, dims, <<>>)
  /\ wmtsCap = NoDocument /\ config = NoDocument /\ options = NoDocument

NextKey ==
  \E patch \in KeyPatches :
    /\ Len(assign(dimensions, patch)) <= MaxEntries
    /\ UpdateDimensions(patch)

SpecKey == InitKey /\ [][NextKey]_vars

\* Two objects hold the same names with the same values.
SameMapping(a, b) == {a[i] : i \in DOMAIN a} = {b[i] : i \in DOMAIN b}

\* C7 as stated: two dimensions mappings that differ in a name or a value
\* have different keys.
C7_Original ==
  \A other \in KeyObjects :
    ~SameMapping(other, dimensions) => getKeyForDimensions(other) # key

\* C7 (amended): two dimensions mappings that differ in a name or a value
\* have different keys, when no name contains "-" and no value contains "/".
C7_KeyInjective ==
  \A other \in KeyObjects :
    (/\ ~SameMapping(other, dimensions)
     /\ SeparatorFree(other) /\ SeparatorFree(dimensions))
      => getKeyForDimensions(other) # key

\* An update has published the key of a two-entry mapping whose names hold
\* no "-" and whose values hold no "/" (one value holds a "-").
C7_Witness ==
  /\ op.kind = "updateDimensions"
  /\ dimensions = << <<<<"time">>, <<"-", "2020">>>>, <<<<"elevation">>, <<"2020">>>> >>
  /\ key = <<"time", "-", "-", "2020", "/", "elevation", "-", "2020">>

(***************************************************************************)
(* optionsFromCapabilities.  The extent, wrapX and tile grid of the        *)
(* result come from the projection and tile grid services and are left     *)
(* out: no modelled field reads them.                                      *)
(***************************************************************************)
NoProjection == "null"

\* supportedCRS.replace(/urn:ogc:def:crs:(\w+):(.*:)?(\w+)$/, '$1:$3')
NormalizeCRS(code) ==
  CASE code = "urn:ogc:def:crs:EPSG::3857" -> "EPSG:3857"
    [] code = "urn:ogc:def:crs:OGC:1.3:CRS84" -> "OGC:CRS84"
    [] OTHER -> code

\* get(code) of ../proj.js: the registered projection, or null.
getProjection(code) ==
  IF code \in {"EPSG:3857", "EPSG:900913", "EPSG:4326",
               "urn:ogc:def:crs:OGC:1.3:CRS84"}
    THEN code ELSE NoProjection

\* equivalent(projection1, projection2) of ../proj.js.
equivalent(proj1, proj2) ==
  LET class(c) == IF c \in {"EPSG:3857", "EPSG:900913"} THEN "mercator" ELSE "geographic"
  IN class(proj1) = class(proj2)

\* getProjection(normalized code) || getProjection(code)
ProjectionOfCRS(code) ==
  IF getProjection(NormalizeCRS(code)) # NoProjection
    THEN getProjection(NormalizeCRS(code)) ELSE getProjection(code)

\* find and findIndex of ../array.js, given the indexes of the elements that
\* satisfy the predicate: the (1-based) index of the first match, 0 for none.
FindIndex(matching) ==
  IF matching = {} THEN 0
  ELSE CHOOSE i \in matching : \A j \in matching : i <= j

\* The predicate of the projection branch: the link's matrix set has a CRS
\* equivalent to config.projection.
LinkHasProjection(link, tileMatrixSets, projection) ==
  LET tileMatrixSet ==
        tileMatrixSets[FindIndex({i \in DOMAIN tileMatrixSets :
                                    tileMatrixSets[i].Identifier = link.TileMatrixSet})]
      supportedCRS == tileMatrixSet.SupportedCRS
      proj1 == ProjectionOfCRS(supportedCRS)
      proj2 == getProjection(projection)
  IN IF proj1 # NoProjection /\ proj2 # NoProjection
       THEN equivalent(proj1, proj2)
       ELSE supportedCRS = projection

\* The matrix-set selection of optionsFromCapabilities: the (1-based) index
\* of the chosen TileMatrixSetLink.
SelectLink(links, tileMatrixSets, cfg) ==
  LET idx ==
        IF Len(links) > 1
          THEN IF "projection" \in DOMAIN cfg
                 THEN FindIndex({i \in DOMAIN links :
                        LinkHasProjection(links[i], tileMatrixSets, cfg.projection)})
                 ELSE FindIndex({i \in DOMAIN links :
                        "matrixSet" \in DOMAIN cfg /\ links[i].TileMatrixSet = cfg.matrixSet})
          ELSE 1
  IN IF idx < 1 THEN 1 ELSE idx

\* The style selection: the index of the chosen Style.
SelectStyle(styles, cfg) ==
  LET idx == FindIndex({i \in DOMAIN styles :
               IF "style" \in DOMAIN cfg THEN styles[i].Title = cfg.style
               ELSE styles[i].isDefault})
  IN IF idx < 1 THEN 1 ELSE idx

\* The dimensions of the layer: each Dimension's Default, or its first Value.
LayerDimensions(l) ==
  IF "Dimension" \in DOMAIN l
    THEN assign(<<>>, [i \in DOMAIN l.Dimension |->
           <<l.Dimension[i].Identifier,
             IF l.Dimension[i].hasDefault THEN l.Dimension[i].Default
             ELSE l.Dimension[i].Value[1]>>])
    ELSE <<>>

\* The projection of the result.
ResolveProjection(code, cfg) ==
  LET projection == IF code # "" THEN ProjectionOfCRS(code) ELSE NoProjection
  IN IF "projection" \in DOMAIN cfg /\ getProjection(cfg.projection) # NoProjection
        /\ (projection = NoProjection
            \/ equivalent(getProjection(cfg.projection), projection))
       THEN getProjection(cfg.projection)
       ELSE projection

RECURSIVE ScanGets(_, _, _, _)
\* The loop over the GetTile HTTP-GET bindings, from binding i on:
\* the urls collected and the request encoding when the loop ends.
ScanGets(gets, i, collected, enc) ==
  IF i > Len(gets) THEN [urls |-> collected, requestEncoding |-> enc]
  ELSE IF gets[i].hasConstraint
    THEN LET encodings == gets[i].AllowedValues
             enc1 == IF enc = ""
                       THEN (IF encodings = <<>> THEN "undefined" ELSE encodings[1])
                       ELSE enc
         IN IF enc1 = KVP
              THEN ScanGets(gets, i + 1,
                            IF \E j \in DOMAIN encodings : encodings[j] = KVP
                              THEN Append(collected, gets[i].href) ELSE collected,
                            enc1)
              ELSE [urls |-> collected, requestEncoding |-> enc1]
    ELSE IF gets[i].href # ""
      THEN ScanGets(gets, i + 1, Append(collected, gets[i].href), KVP)
      ELSE ScanGets(gets, i + 1, collected, enc)

\* The layer's ResourceURL templates of resourceType 'tile'.
TileResources(l) == SelectSeq(l.ResourceURL, LAMBDA e : e.resourceType = "tile")

\* A fallback that takes the templates and keeps the encoding of the scan.
RestFallbackKeepsEncoding(scan, l, format) ==
  IF scan.urls = <<>>
    THEN [urls |-> [i \in DOMAIN TileResources(l) |-> TileResources(l)[i].template],
          requestEncoding |-> scan.requestEncoding,
          format |-> IF TileResources(l) = <<>> THEN format
                     ELSE TileResources(l)[Len(TileResources(l))].format]
    ELSE [urls |-> scan.urls, requestEncoding |-> scan.requestEncoding,
          format |-> format]

\* The fallback to REST when the scan collected no url.
RestFallback(scan, l, format) ==
  IF scan.urls = <<>>
    THEN [urls |-> [i \in DOMAIN TileResources(l) |-> TileResources(l)[i].template],
          requestEncoding |-> REST,
          format |-> IF TileResources(l) = <<>> THEN format
                     ELSE TileResources(l)[Len(TileResources(l))].format]
    ELSE [urls |-> scan.urls, requestEncoding |-> scan.requestEncoding,
          format |-> format]

NullOptions ==
  [type |-> "null", urls |-> <<>>, layer |-> "", matrixSet |-> "", format |-> "",
   projection |-> NoProjection, requestEncoding |-> "", style |-> "",
   dimensions |-> <<>>]

PendingOptions == [NullOptions EXCEPT !.type = "pending"]

optionsFromCapabilities(cap, cfg) ==
  LET lidx == FindIndex({i \in DOMAIN cap.Layer : cap.Layer[i].Identifier = cfg.layer})
  IN IF lidx = 0 THEN NullOptions
     ELSE
       LET l == cap.Layer[lidx]
           idx == SelectLink(l.TileMatrixSetLink, cap.TileMatrixSet, cfg)
           matrixSet == l.TileMatrixSetLink[idx].TileMatrixSet
           format == IF "format" \in DOMAIN cfg THEN cfg.format ELSE l.Format[1]
           style == l.Style[SelectStyle(l.Style, cfg)].Identifier
           matrixSetObj ==
             cap.TileMatrixSet[FindIndex({i \in DOMAIN cap.TileMatrixSet :
                                            cap.TileMatrixSet[i].Identifier = matrixSet})]
           scan == IF cap.hasGetTile
                     THEN ScanGets(cap.Get, 1, <<>>,
                                   IF "requestEncoding" \in DOMAIN cfg
                                     THEN cfg.requestEncoding ELSE "")
                     ELSE [urls |-> <<>>,
                           requestEncoding |-> IF "requestEncoding" \in DOMAIN cfg
                                                 THEN cfg.requestEncoding ELSE ""]
           last == RestFallback(scan, l, format)
       IN [type |-> "options",
           urls |-> last.urls,
           layer |-> cfg.layer,
           matrixSet |-> matrixSet,
           format |-> last.format,
           projection |-> ResolveProjection(matrixSetObj.SupportedCRS, cfg),
           requestEncoding |-> last.requestEncoding,
           style |-> style,
           dimensions |-> LayerDimensions(l)]

(***************************************************************************)
(* Inputs of the capabilities specifications.                              *)
(***************************************************************************)
TileMatrixSets ==
  << [Identifier |-> "WGS84", SupportedCRS |-> "urn:ogc:def:crs:OGC:1.3:CRS84"],
     [Identifier |-> "WebMercator", SupportedCRS |-> "urn:ogc:def:crs:EPSG::3857"],
     [Identifier |-> "Local", SupportedCRS |-> "EPSG:9999"] >>

MatrixSetIds == {TileMatrixSets[i].Identifier : i \in DOMAIN TileMatrixSets}

\* The lists of one to MaxLinks links to distinct matrix sets.
LinkLists ==
  {[i \in DOMAIN ids |-> [TileMatrixSet |-> ids[i]]] :
     ids \in {q \in UNION {[1..k -> MatrixSetIds] : k \in 1..MaxLinks} :
                \A i, j \in DOMAIN q : i # j => q[i] # q[j]}}

ResourceLists ==
  {<<>>,
   << [resourceType |-> "tile", format |-> "image/png", template |-> "http://rest/a/{TileMatrix}"] >>,
   << [resourceType |-> "tile", format |-> "image/png", template |-> "http://rest/a/{TileMatrix}"],
      [resourceType |-> "FeatureInfo", format |-> "text/html", template |-> "http://rest/info"],
      [resourceType |-> "tile", format |-> "image/webp", template |-> "http://rest/b/{TileMatrix}"] >>}

LayerOf(links, resources) ==
  [Identifier |-> "roads",
   TileMatrixSetLink |-> links,
   Format |-> <<"image/jpeg", "image/png">>,
   Style |-> << [Identifier |-> "night", Title |-> "Night", isDefault |-> FALSE],
                [Identifier |-> "default", Title |-> "Default", isDefault |-> TRUE] >>,
   Dimension |-> << [Identifier |-> <<"Time">>, hasDefault |-> TRUE,
                     Default |-> <<"current">>, Value |-> <<<<"latest">>, <<"current">>>>],
                    [Identifier |-> <<"elevation">>, hasDefault |-> FALSE,
                     Default |-> <<>>, Value |-> <<<<"0">>, <<"100">>>>] >>,
   ResourceURL |-> resources]

Binding(href, hasConstraint, allowed) ==
  [href |-> href, hasConstraint |-> hasConstraint, AllowedValues |-> allowed]

\* GetTile HTTP-GET bindings: without a constraint (with and without an
\* href), and with a GetEncoding constraint of each shape.
Bindings ==
  {Binding("http://kvp/plain", FALSE, <<>>),
   Binding("", FALSE, <<>>),
   Binding("http://kvp/only", TRUE, <<KVP>>),
   Binding("http://rest/only", TRUE, <<REST>>),
   Binding("http://both/kvp-first", TRUE, <<KVP, REST>>),
   Binding("http://both/rest-first", TRUE, <<REST, KVP>>)}

GetLists == UNION {[1..k -> Bindings] : k \in 0..MaxGets}

Document(links, resources, hasGetTile, gets) ==
  [Layer |-> <<LayerOf(links, resources)>>,
   TileMatrixSet |-> TileMatrixSets,
   hasGetTile |-> hasGetTile,
   Get |-> gets]

\* A config object: the layer, and each optional property unless "absent".
Config(layer, matrixSet, projection, encoding) ==
  [k \in {"layer"}
        \cup (IF matrixSet = "absent" THEN {} ELSE {"matrixSet"})
        \cup (IF projection = "absent" THEN {} ELSE {"projection"})
        \cup (IF encoding = "absent" THEN {} ELSE {"requestEncoding"}) |->
     CASE k = "layer" -> layer
       [] k = "matrixSet" -> matrixSet
       [] k = "projection" -> projection
       [] k = "requestEncoding" -> encoding]

SourceUnused ==
  /\ requestEncoding = KVP /\ context = <<>> /\ dimensions = <<>> /\ urls = <<>>
  /\ tileUrlFunction = [kind |-> "null", templates |-> <<>>]
  /\ key = <<>>
  /\ op = Op("none", <<>>, None, <<>>, Undefined)

\* The call optionsFromCapabilities(wmtsCap, config).
OptionsFromCapabilities ==
  /\ options.type = "pending"
  /\ options' = optionsFromCapabilities(wmtsCap, config)
  /\ UNCHANGED <<wmtsCap, config, sourceVars>>

\* Documents and configs that vary the matrix-set links, config.layer,
\* config.matrixSet and config.projection.
InitCapMatrix ==
  /\ \E links \in LinkLists,
        layer \in {"roads", "rivers"},
        matrixSet \in {"absent", "Other"} \cup MatrixSetIds,
        projection \in {"absent", "EPSG:3857", "EPSG:4326", "EPSG:9999", "EPSG:2056"} :
       /\ wmtsCap = Document(links, <<>>, TRUE, <<Binding("http://kvp/plain", FALSE, <<>>)>>)
       /\ config = Config(layer, matrixSet, projection, "absent")
  /\ options = PendingOptions
  /\ SourceUnused

SpecCapMatrix == InitCapMatrix /\ [][OptionsFromCapabilities]_vars

\* Documents and configs that vary the GetTile bindings, the layer's
\* resource URLs and config.requestEncoding.
InitCapEncoding ==
  /\ \E gets \in GetLists, resources \in ResourceLists, hasGetTile \in BOOLEAN,
        encoding \in {"absent", KVP, REST} :
       /\ hasGetTile \/ gets = <<>>
       /\ wmtsCap = Document(<<[TileMatrixSet |-> "WebMercator"]>>, resources, hasGetTile, gets)
       /\ config = Config("roads", "absent", "absent", encoding)
  /\ options = PendingOptions
  /\ SourceUnused

SpecCapEncoding == InitCapEncoding /\ [][OptionsFromCapabilities]_vars

(***************************************************************************)
(* Claims about optionsFromCapabilities.                                   *)
(***************************************************************************)
TheLayer == wmtsCap.Layer[1]

\* The reference selection of C2.
ReferenceLink(links, cfg) ==
  IF Len(links) = 1 THEN 1
  ELSE IF "matrixSet" \in DOMAIN cfg
          /\ \E i \in DOMAIN links : links[i].TileMatrixSet = cfg.matrixSet
    THEN CHOOSE i \in DOMAIN links : links[i].TileMatrixSet = cfg.matrixSet
  ELSE IF "projection" \in DOMAIN cfg
          /\ \E i \in DOMAIN links :
               LinkHasProjection(links[i], wmtsCap.TileMatrixSet, cfg.projection)
    THEN CHOOSE i \in DOMAIN links :
           /\ LinkHasProjection(links[i], wmtsCap.TileMatrixSet, cfg.projection)
           /\ \A j \in 1..(i - 1) :
                ~LinkHasProjection(links[j], wmtsCap.TileMatrixSet, cfg.projection)
  ELSE 1

\* C2: when the layer is found the chosen link is the only link, else the
\* link named by config.matrixSet, else the first link whose CRS is
\* equivalent to config.projection, else the first link.
C2_MatrixSetSelection ==
  options.type = "options" =>
    options.matrixSet =
      TheLayer.TileMatrixSetLink[ReferenceLink(TheLayer.TileMatrixSetLink, config)].TileMatrixSet

Hrefs == {wmtsCap.Get[i].href : i \in DOMAIN wmtsCap.Get} \ {""}

TileTemplates ==
  {TheLayer.ResourceURL[i].template :
     i \in {j \in DOMAIN TheLayer.ResourceURL : TheLayer.ResourceURL[j].resourceType = "tile"}}

UrlsOf(o) == {o.urls[i] : i \in DOMAIN o.urls}

\* C3: when config.requestEncoding is given and the layer is found, the
\* returned requestEncoding equals it and the returned urls are those of
\* that encoding.
C3_ConfigEncodingKept ==
  (options.type = "options" /\ "requestEncoding" \in DOMAIN config) =>
    /\ options.requestEncoding = config.requestEncoding
    /\ config.requestEncoding = KVP => UrlsOf(options) \subseteq Hrefs
    /\ config.requestEncoding = REST => UrlsOf(options) \subseteq TileTemplates

====
